---- MODULE Spec2Model ----
(***************************************************************************)
(* Retrieval fusion and corpus-integrity core of the RAG backend:          *)
(*   backend/utils.py  chunk_text                                          *)
(*   backend/main.py   safe, merge_and_rank                                *)
(*   backend/db.py     _safe_delete, delete_similar_to_prompt,             *)
(*                     fetch_all_objects, clean_messed_up_data, add_chunk  *)
(*   backend/main.py   ingest, chat_analyze                                *)
(* Strings are sequences of one-character strings.  Python floats are      *)
(* modelled as exact rationals <<numerator, denominator>>.                 *)
(***************************************************************************)
EXTENDS Integers, Sequences, FiniteSets, TLC

VARIABLES
    \* ---- chunk_text (utils.py:83-109)
    raw,               \* the argument `text` as passed by the caller
    text,              \* the local `text` after line 90
    chunk_size_chars,  \* argument
    overlap,           \* argument
    start,             \* local
    chunks,            \* local, the returned list
    cpc,               \* position in chunk_text: "call", "loop", "done", "off"
    \* ---- merge_and_rank (main.py:120-170)
    vec,               \* argument: results of query_embeddings
    bm25,              \* argument: results of keyword_search
    hybrid,            \* argument: results of hybrid_search
    top_k,             \* argument
    ranked,            \* the returned list
    rpc,               \* "call", "returned", "raised", "off"
    \* ---- the store and delete_similar_to_prompt (db.py:361-515)
    store,             \* uuids of the records the collection holds
    store0,            \* the collection when the call began
    prompt,            \* argument
    similarity_threshold,  \* argument
    search_limit,      \* argument
    prompt_text,       \* local
    q_emb,             \* local: "vector" or "empty" ([] from jina_embed)
    results,           \* local: extract(vec_resp) + extract(bm25_resp)
    to_delete,         \* local
    debug,             \* local
    deleted,           \* local
    failed,            \* local
    di,                \* index into to_delete of the delete loop
    calls,             \* calls made to the embedding service and the store
    ret,               \* what the call returned
    dpc,               \* "call", "embed", "search", "score", "loop",
                       \* "secondary", "returned", "raised", "off"
    \* ---- the two distance-to-similarity mappings (main.py:126, db.py:453-464)
    d1,                \* a distance
    d2,                \* a second distance
    rank_sim,          \* <<similarity of d1, of d2>> by merge_and_rank
    del_sim,           \* <<similarity of d1, of d2>> by delete_similar_to_prompt
    spc,               \* "call", "off"
    \* ---- the collection and the maintenance invocations (db.py:140-160,
    \*      314-374, 378-515)
    coll,              \* the collection: uuid -> properties["chunk"]
    coll0,             \* the collection when the invocations began
    next_uuid,         \* the uuid the store gives to the next inserted record
    faults,            \* whether the store may fail a delete of a present record
    proc,              \* per invocation: its operation, position and locals
    \* ---- ingest and chat_analyze (main.py:77-107, 301-329)
    iop,               \* "ingest", "chat", "none"
    ipc,               \* "idle", "chunking", "adding", "off"
    added              \* local: chunks inserted so far

cvars == <<raw, text, chunk_size_chars, overlap, start, chunks, cpc>>

rvars == <<vec, bm25, hybrid, top_k, ranked, rpc>>

dvars == <<store, store0, prompt, similarity_threshold, search_limit,
           prompt_text, q_emb, results, to_delete, debug, deleted, failed,
           di, calls, ret, dpc>>

svars == <<d1, d2, rank_sim, del_sim, spc>>

mvars == <<coll, coll0, next_uuid, faults, proc>>

ivars == <<iop, ipc, added>>

vars == <<cvars, rvars, dvars, svars, mvars, ivars>>

----------------------------------------------------------------------------
(* Bounds of the model *)

MaxLen == 4
MaxSize == 3
MaxChunks == 6
MaxResults == 4
MaxSearchLimit == 2
MaxHalves == 6
MaxRecords == 4
MaxBatch == 3
MaxInserts == 2
WindowSize == 3
WindowOverlap == 1

----------------------------------------------------------------------------
(* Generic helpers *)

Min(a, b) == IF a <= b THEN a ELSE b

\* all sequences over S of length at most n
BoundedSeq(S, n) == UNION {[1..k -> S] : k \in 0..n}

\* Python slice s[lo:hi] for 0 <= lo, 0 <= hi
Slice(s, lo, hi) == SubSeq(s, lo + 1, Min(hi, Len(s)))

RECURSIVE Concat(_)
Concat(ss) ==
    IF ss = <<>> THEN <<>> ELSE Head(ss) \o Concat(Tail(ss))

----------------------------------------------------------------------------
(* chunk_text: utils.py *)

\* characters of the modelled texts; the last three are whitespace (\s)
Chars == {"a", "b", " ", "\n"}

Whitespace == {" ", "\n", "\t"}

REFINE_WITH_LLM == FALSE

\* re.sub(r"\s+", " ", text): every maximal run of whitespace becomes one space
RECURSIVE CollapseWs(_)
CollapseWs(s) ==
    IF s = <<>> THEN <<>>
    ELSE IF Head(s) \in Whitespace
         THEN IF Len(s) >= 2 /\ s[2] \in Whitespace
              THEN CollapseWs(Tail(s))
              ELSE <<" ">> \o CollapseWs(Tail(s))
         ELSE <<Head(s)>> \o CollapseWs(Tail(s))

RECURSIVE LStrip(_)
LStrip(s) ==
    IF s # <<>> /\ Head(s) \in Whitespace THEN LStrip(Tail(s)) ELSE s

RECURSIVE RStrip(_)
RStrip(s) ==
    IF s # <<>> /\ s[Len(s)] \in Whitespace
    THEN RStrip(SubSeq(s, 1, Len(s) - 1))
    ELSE s

\* str.strip()
Strip(s) == RStrip(LStrip(s))

\* line 90: text = re.sub(r"\s+", " ", text).strip()
NormalizeUnstripped(s) == CollapseWs(s)

Normalize(s) == Strip(CollapseWs(s))

\* what refine_chunk_with_llm may return: the model's answer stripped, or the
\* chunk itself when the call fails
RefinedOutputs(chunk) == {chunk, <<>>, <<"a">>}

\* lines 99-103: the string appended for a chunk
AppendedChunks(chunk) ==
    IF REFINE_WITH_LLM THEN RefinedOutputs(chunk) ELSE {chunk}

\* lines 105-107: start = end - overlap; if start < 0: start = 0
NextStartSkipping(s, size, ov) ==
    IF s + size - ov + 1 < 0 THEN 0 ELSE s + size - ov + 1

NextStart(s, size, ov) ==
    LET end == s + size
        nxt == end - ov
    IN  IF nxt < 0 THEN 0 ELSE nxt

\* lines 90-93
ChunkEnter ==
    /\ cpc = "call"
    /\ text' = Normalize(raw)
    /\ start' = 0
    /\ chunks' = <<>>
    /\ cpc' = "loop"
    /\ UNCHANGED <<raw, chunk_size_chars, overlap>>
    /\ UNCHANGED <<rvars, dvars, svars, mvars, ivars>>

\* lines 95-107: one iteration of `while start < L`
ChunkIter ==
    /\ cpc = "loop"
    /\ start < Len(text)
    /\ Len(chunks) < MaxChunks
    /\ LET end == start + chunk_size_chars
           chunk == Slice(text, start, end)
       IN  \E c \in AppendedChunks(chunk) : chunks' = Append(chunks, c)
    /\ start' = NextStart(start, chunk_size_chars, overlap)
    /\ UNCHANGED <<raw, text, chunk_size_chars, overlap, cpc>>
    /\ UNCHANGED <<rvars, dvars, svars, mvars, ivars>>

\* line 95 false, line 109: return chunks
ChunkReturn ==
    /\ cpc = "loop"
    /\ ~(start < Len(text))
    /\ cpc' = "done"
    /\ UNCHANGED <<raw, text, chunk_size_chars, overlap, start, chunks>>
    /\ UNCHANGED <<rvars, dvars, svars, mvars, ivars>>

ChunkCall ==
    /\ raw \in BoundedSeq(Chars, MaxLen)
    /\ chunk_size_chars \in 1..MaxSize
    /\ overlap \in 0..MaxSize
    /\ text = <<>>
    /\ start = 0
    /\ chunks = <<>>
    /\ cpc = "call"

ChunkOff ==
    /\ raw = <<>> /\ text = <<>> /\ chunk_size_chars = 1 /\ overlap = 0
    /\ start = 0 /\ chunks = <<>> /\ cpc = "off"

----------------------------------------------------------------------------
(* Exact rationals <<n, d>>, d > 0, in lowest terms: Python's float values *)

RECURSIVE GCD(_, _)
GCD(a, b) == IF b = 0 THEN a ELSE GCD(b, a % b)

Abs(a) == IF a < 0 THEN -a ELSE a

\* n/d for d # 0
Rat(n, d) ==
    LET sn == IF d < 0 THEN -n ELSE n
        sd == Abs(d)
        g  == GCD(Abs(sn), sd)
    IN  <<sn \div g, sd \div g>>

Zero == Rat(0, 1)

One == Rat(1, 1)

RAdd(x, y) == Rat(x[1] * y[2] + y[1] * x[2], x[2] * y[2])

RMul(x, y) == Rat(x[1] * y[1], x[2] * y[2])

\* x / y for y # Zero
RDiv(x, y) == Rat(x[1] * y[2], x[2] * y[1])

RLe(x, y) == x[1] * y[2] <= y[1] * x[2]

RLt(x, y) == x[1] * y[2] < y[1] * x[2]

RMin(x, y) == IF RLe(x, y) THEN x ELSE y

----------------------------------------------------------------------------
(* merge_and_rank: main.py *)

\* A signal field as the store client hands it over: missing or None, a number,
\* a string float() parses, or a string it does not parse.
NoneV == [k |-> "none", v |-> Zero]

BadStr == [k |-> "badstr", v |-> Zero]

Num(n, d) == [k |-> "num", v |-> Rat(n, d)]

NumStr(n, d) == [k |-> "numstr", v |-> Rat(n, d)]

\* main.py:113-117: float(x or 0), 0.0 when float() raises
safe(x) ==
    IF x.k = "none" THEN Zero              \* None or 0 -> float(0)
    ELSE IF x.k \in {"num", "numstr"} THEN x.v
    ELSE Zero                              \* except: return 0.0

\* the mapping `combined` is a Python dict: keys in insertion order
HasKey(combined, key) == \E i \in 1..Len(combined) : combined[i].chunk = key

KeyIndex(combined, key) ==
    CHOOSE i \in 1..Len(combined) : combined[i].chunk = key

\* dict.setdefault(key, default) followed by an update of the stored value
SetDefault(combined, key, default) ==
    IF HasKey(combined, key) THEN combined ELSE Append(combined, default)

\* line 126 raises ZeroDivisionError when 1 + distance is 0
VecRaises(r) == RAdd(One, safe(r.distance)) = Zero

\* lines 125-133: combined[key] = {...}; an existing key keeps its position
\* and has its value replaced
AddVec(combined, r) ==
    LET key   == r.chunk
        sim   == RDiv(One, RAdd(One, safe(r.distance)))
        entry == [chunk |-> r.chunk, doc_id |-> r.doc_id, vector_score |-> sim,
                  bm25_score |-> Zero, hybrid_score |-> Zero]
    IN  IF HasKey(combined, key)
        THEN [combined EXCEPT ![KeyIndex(combined, key)] = entry]
        ELSE Append(combined, entry)

Blank(r) ==
    [chunk |-> r.chunk, doc_id |-> r.doc_id, vector_score |-> Zero,
     bm25_score |-> Zero, hybrid_score |-> Zero]

\* lines 137-145
AddBm25Overwriting(combined, r) ==
    LET c == SetDefault(combined, r.chunk, Blank(r))
    IN  [c EXCEPT ![KeyIndex(c, r.chunk)].bm25_score = safe(r.score)]

AddBm25(combined, r) ==
    LET key == r.chunk
        sc  == safe(r.score)
        c   == SetDefault(combined, key, Blank(r))
        i   == KeyIndex(c, key)
    IN  [c EXCEPT ![i].bm25_score = RAdd(c[i].bm25_score, sc)]

\* lines 149-157
AddHybrid(combined, r) ==
    LET key == r.chunk
        sc  == safe(r.score)
        c   == SetDefault(combined, key, Blank(r))
        i   == KeyIndex(c, key)
    IN  [c EXCEPT ![i].hybrid_score = RAdd(c[i].hybrid_score, sc)]

\* the three `for r in ...` loops, left to right
RECURSIVE FoldVec(_, _)
FoldVec(combined, rs) ==
    IF rs = <<>> THEN combined
    ELSE FoldVec(AddVec(combined, Head(rs)), Tail(rs))

RECURSIVE FoldBm25(_, _)
FoldBm25(combined, rs) ==
    IF rs = <<>> THEN combined
    ELSE FoldBm25(AddBm25(combined, Head(rs)), Tail(rs))

RECURSIVE FoldHybrid(_, _)
FoldHybrid(combined, rs) ==
    IF rs = <<>> THEN combined
    ELSE FoldHybrid(AddHybrid(combined, Head(rs)), Tail(rs))

W_VECTOR == Rat(5, 10)

W_BM25 == Rat(3, 10)

W_HYBRID == Rat(2, 10)

\* lines 162-166
FinalScore(d) ==
    RAdd(RAdd(RMul(W_VECTOR, d.vector_score), RMul(W_BM25, d.bm25_score)),
         RMul(W_HYBRID, d.hybrid_score))

\* line 167: {**d, "score": final}
WithScore(d) ==
    [chunk |-> d.chunk, doc_id |-> d.doc_id, vector_score |-> d.vector_score,
     bm25_score |-> d.bm25_score, hybrid_score |-> d.hybrid_score,
     score |-> FinalScore(d)]

\* line 169: list.sort(key=score, reverse=True) is stable: x goes behind every
\* element already placed whose score is >= its own
InsertDescUnstable(sorted, x) ==
    LET before == {i \in 1..Len(sorted) : RLt(x.score, sorted[i].score)}
        n == Cardinality(before)
    IN  SubSeq(sorted, 1, n) \o <<x>> \o SubSeq(sorted, n + 1, Len(sorted))

InsertDesc(sorted, x) ==
    LET before == {i \in 1..Len(sorted) : RLe(x.score, sorted[i].score)}
        n == Cardinality(before)
    IN  SubSeq(sorted, 1, n) \o <<x>> \o SubSeq(sorted, n + 1, Len(sorted))

RECURSIVE SortDesc(_, _)
SortDesc(sorted, rest) ==
    IF rest = <<>> THEN sorted
    ELSE SortDesc(InsertDesc(sorted, Head(rest)), Tail(rest))

\* lines 121-157
Combined(v, b, h) == FoldHybrid(FoldBm25(FoldVec(<<>>, v), b), h)

\* lines 160-170, for inputs on which line 126 does not raise
merge_and_rank(v, b, h, k) ==
    LET combined == Combined(v, b, h)
        scored   == [i \in 1..Len(combined) |-> WithScore(combined[i])]
    IN  Slice(SortDesc(<<>>, scored), 0, k)

\* the call: returns the ranked list, or propagates line 126's exception
Rank ==
    /\ rpc = "call"
    /\ IF \E i \in 1..Len(vec) : VecRaises(vec[i])
       THEN rpc' = "raised" /\ ranked' = <<>>
       ELSE rpc' = "returned" /\ ranked' = merge_and_rank(vec, bm25, hybrid, top_k)
    /\ UNCHANGED <<vec, bm25, hybrid, top_k>>
    /\ UNCHANGED <<cvars, dvars, svars, mvars, ivars>>

\* the result lists the three searches of `ask` hand to merge_and_rank
Texts == {"t1", "t2"}

DocIds == {"d1"}

VecDistances == {NoneV, Num(1, 1), Num(-1, 1)}

Bm25Scores == {NoneV, Num(1, 1)}

HybridScores == {BadStr, Num(1, 1)}

VecResults ==
    [chunk : Texts, doc_id : DocIds, distance : VecDistances, score : {NoneV}]

Bm25Results ==
    [chunk : Texts, doc_id : DocIds, distance : {NoneV}, score : Bm25Scores]

HybridResults ==
    [chunk : Texts, doc_id : DocIds, distance : {NoneV}, score : HybridScores]

\* top_k: fewer than, as many as and more than the distinct texts there can be
TopKs == 0..(Cardinality(Texts) + 1)

\* MaxResults bounds the entries of the three lists together
RankCall ==
    /\ vec \in BoundedSeq(VecResults, MaxResults)
    /\ bm25 \in BoundedSeq(Bm25Results, MaxResults - Len(vec))
    /\ hybrid \in BoundedSeq(HybridResults, MaxResults - Len(vec) - Len(bm25))
    /\ top_k \in TopKs
    /\ ranked = <<>>
    /\ rpc = "call"

RankOff ==
    /\ vec = <<>> /\ bm25 = <<>> /\ hybrid = <<>> /\ top_k = 0
    /\ ranked = <<>> /\ rpc = "off"

----------------------------------------------------------------------------
(* The store, _safe_delete and delete_similar_to_prompt: db.py *)

\* the records the collection may hold: uuid -> properties["chunk"]
UUIDs == {"u1", "u2"}

\* getattr(obj, "uuid", None) of an object that carries no uuid
NoUuid == "None"

\* props.get("chunk", "") or "": "" for an object without properties
ChunkOf(u) ==
    IF u = "u1" THEN <<"M", "y", " ", "R", "A", "G">>
    ELSE IF u = "u2" THEN <<"b", "l", "u", "e", " ", "s", "k", "y">>
    ELSE <<>>

\* str.lower() on the letters the modelled chunks use
LowerChar(c) ==
    CASE c = "M" -> "m"
      [] c = "R" -> "r"
      [] c = "A" -> "a"
      [] c = "G" -> "g"
      [] OTHER -> c

Lower(s) == [i \in 1..Len(s) |-> LowerChar(s[i])]

\* Python's `sub in s` for strings
Contains(sub, s) ==
    \E i \in 0..(Len(s) - Len(sub)) : SubSeq(s, i + 1, i + Len(sub)) = sub

\* lines 429-433
keywords ==
    { <<"a", "y", "u", "s", "h">>, <<"s", "i", "n", "g", "h">>,
      <<"d", "e", "v", "e", "l", "o", "p", "e", "r">>, <<"r", "a", "g">>,
      <<"a", "i">>, <<"a", "i", "m", "l">>,
      <<"w", "e", "a", "v", "i", "a", "t", "e">>, <<"t", "e", "c", "h">>,
      <<"s", "t", "a", "c", "k">> }

kw_lower == {Lower(k) : k \in keywords}

\* The argument `prompt`: a str (k = "str", s its text), a value that is no
\* str and has no attribute `query` (k = "other"), or an object with an
\* attribute `query` (k = "obj"), which is a str (qstr, s its text) or not.
StrPrompt(t) == [k |-> "str", s |-> t, qstr |-> FALSE]

OtherPrompt == [k |-> "other", s |-> <<>>, qstr |-> FALSE]

ObjPrompt(isStr, t) == [k |-> "obj", s |-> t, qstr |-> isStr]

\* line 391: prompt_text = getattr(prompt, "query", prompt), as
\* [str |-> whether it is a str, s |-> its text]
PromptText(p) ==
    IF p.k = "obj" THEN [str |-> p.qstr, s |-> p.s]
    ELSE [str |-> (p.k = "str"), s |-> p.s]

\* line 392, negated: isinstance(prompt_text, str) and prompt_text.strip()
PromptOkUnstripped(pt) == pt.str /\ pt.s # <<>>

PromptOk(pt) == pt.str /\ Strip(pt.s) # <<>>

\* lines 453-464
VecSim(distance) ==
    IF distance.k = "none" THEN Zero
    ELSE IF distance.k = "badstr" THEN Zero          \* float() raises
    ELSE LET d == distance.v
         IN  IF RLe(Zero, d) /\ RLe(d, One) THEN RAdd(One, RMul(Rat(-1, 1), d))
             ELSE IF RAdd(One, d) = Zero THEN Zero   \* ZeroDivisionError caught
             ELSE RDiv(One, RAdd(One, d))

\* lines 467-470: float(None) raises, like float of an unparsable string
Bm25Sim(score) ==
    IF score.k \in {"none", "badstr"} THEN Zero
    ELSE RMin(RDiv(score.v, Rat(10, 1)), One)

\* lines 473-476
KeywordBoost(chunk) ==
    IF \E k \in kw_lower : Contains(k, Lower(chunk)) THEN Rat(30, 100) ELSE Zero

\* lines 479-480
FinalSim(vec_sim, bm25_sim, keyword_boost) ==
    RMin(RAdd(RAdd(RMul(Rat(6, 10), vec_sim), RMul(Rat(3, 10), bm25_sim)),
              keyword_boost),
         One)

\* line 492
QueuedStrictly(final_sim, threshold) == RLt(threshold, final_sim)

Queued(final_sim, threshold) == RLe(threshold, final_sim)

\* lines 445-489: the debug record of one result object
Scored(obj) ==
    LET chunk == obj.chunk
        vec_sim == VecSim(obj.distance)
        bm25_sim == Bm25Sim(obj.score)
        keyword_boost == KeywordBoost(chunk)
    IN  [uuid |-> obj.uuid,
         chunk_preview |-> Slice(chunk, 0, 180),
         vector_similarity |-> vec_sim,
         bm25_similarity |-> bm25_sim,
         keyword_boost |-> keyword_boost,
         final_similarity |-> FinalSim(vec_sim, bm25_sim, keyword_boost)]

\* lines 442-493: the uuids appended to to_delete, in order
RECURSIVE ToDelete(_, _)
ToDelete(objs, threshold) ==
    IF objs = <<>> THEN <<>>
    ELSE (IF Queued(Scored(Head(objs)).final_similarity, threshold)
          THEN <<Head(objs).uuid>> ELSE <<>>)
         \o ToDelete(Tail(objs), threshold)

\* lines 361-374: what _safe_delete returns, given how its two forms ended
SafeDeleteReturnsPrimaryOnly(primary_ok, secondary_ok) == primary_ok

SafeDeleteReturns(primary_ok, secondary_ok) == primary_ok \/ secondary_ok

\* what the store can answer to near_vector: objects of the collection, each
\* once, at most `limit` of them, each with its distance
Distances == {Num(0, 1), Num(3, 1)}

Scores == {NoneV, Num(20, 1)}

\* an object in the plain-mapping shape: lines 445-451 find no uuid, no
\* properties and no metadata on it (distance None, score 0)
PlainObject == [uuid |-> NoUuid, distance |-> NoneV, score |-> Num(0, 1)]

Objects(meta_distance, meta_score) ==
    [uuid : store, distance : meta_distance, score : meta_score]
        \cup {PlainObject}

Responses(objs, limit) ==
    {r \in BoundedSeq(objs, Min(limit, Cardinality(UUIDs))) :
        \A i, j \in 1..Len(r) : r[i].uuid = r[j].uuid => i = j}

WithChunk(r) ==
    [i \in 1..Len(r) |->
        [uuid |-> r[i].uuid, chunk |-> ChunkOf(r[i].uuid),
         distance |-> r[i].distance, score |-> r[i].score]]

\* lines 391-393
DelValidate ==
    /\ dpc = "call"
    /\ prompt_text' = PromptText(prompt)
    /\ IF ~PromptOk(PromptText(prompt))
       THEN dpc' = "raised" /\ ret' = "ValueError"
       ELSE dpc' = "embed" /\ ret' = ret
    /\ UNCHANGED <<store, store0, prompt, similarity_threshold, search_limit,
                   q_emb, results, to_delete, debug, deleted, failed, di, calls>>
    /\ UNCHANGED <<cvars, rvars, svars, mvars, ivars>>

\* line 398: jina_embed returns a vector, or [] when the request failed
DelEmbed ==
    /\ dpc = "embed"
    /\ q_emb' \in {"vector", "empty"}
    /\ calls' = Append(calls, [op |-> "embed", uuid |-> NoUuid, at |-> 0, ok |-> TRUE])
    /\ dpc' = "search"
    /\ UNCHANGED <<store, store0, prompt, similarity_threshold, search_limit,
                   prompt_text, results, to_delete, debug, deleted, failed, di, ret>>
    /\ UNCHANGED <<cvars, rvars, svars, mvars, ivars>>

\* lines 404-424: both searches answer
DelSearch ==
    /\ dpc = "search"
    /\ \E vec_resp \in Responses(Objects(Distances, {NoneV}), search_limit),
          bm25_resp \in Responses(Objects({NoneV}, Scores), search_limit) :
            /\ results' = WithChunk(vec_resp \o bm25_resp)
            /\ IF vec_resp \o bm25_resp = <<>>
               THEN dpc' = "returned" /\ ret' = "no results found"
               ELSE dpc' = "score" /\ ret' = ret
    /\ calls' = calls \o
            <<[op |-> "near_vector", uuid |-> NoUuid, at |-> 0, ok |-> TRUE],
              [op |-> "bm25", uuid |-> NoUuid, at |-> 0, ok |-> TRUE]>>
    /\ UNCHANGED <<store, store0, prompt, similarity_threshold, search_limit,
                   prompt_text, q_emb, to_delete, debug, deleted, failed, di>>
    /\ UNCHANGED <<cvars, rvars, svars, mvars, ivars>>

\* lines 404-413: near_vector or bm25 raises
DelSearchFails ==
    /\ dpc = "search"
    /\ \E failing \in {"near_vector", "bm25"} :
        calls' = calls \o
            (IF failing = "near_vector"
             THEN <<[op |-> "near_vector", uuid |-> NoUuid, at |-> 0, ok |-> FALSE]>>
             ELSE <<[op |-> "near_vector", uuid |-> NoUuid, at |-> 0, ok |-> TRUE],
                    [op |-> "bm25", uuid |-> NoUuid, at |-> 0, ok |-> FALSE]>>)
    /\ dpc' = "returned"
    /\ ret' = "search failed"
    /\ UNCHANGED <<store, store0, prompt, similarity_threshold, search_limit,
                   prompt_text, q_emb, results, to_delete, debug, deleted,
                   failed, di>>
    /\ UNCHANGED <<cvars, rvars, svars, mvars, ivars>>

\* lines 438-499
DelScore ==
    /\ dpc = "score"
    /\ debug' = [i \in 1..Len(results) |-> Scored(results[i])]
    /\ to_delete' = ToDelete(results, similarity_threshold)
    /\ deleted' = <<>>
    /\ failed' = <<>>
    /\ di' = 1
    /\ dpc' = "loop"
    /\ UNCHANGED <<store, store0, prompt, similarity_threshold, search_limit,
                   prompt_text, q_emb, results, calls, ret>>
    /\ UNCHANGED <<cvars, rvars, svars, mvars, ivars>>

\* lines 501-503: if not uid: continue
DelSkip ==
    /\ dpc = "loop"
    /\ di <= Len(to_delete)
    /\ to_delete[di] = NoUuid
    /\ di' = di + 1
    /\ UNCHANGED <<store, store0, prompt, similarity_threshold, search_limit,
                   prompt_text, q_emb, results, to_delete, debug, deleted,
                   failed, calls, ret, dpc>>
    /\ UNCHANGED <<cvars, rvars, svars, mvars, ivars>>

\* lines 504, 362-367: col.data.delete_by_id(uuid) removes the record (an
\* absent one is not an error) or raises
DelPrimary ==
    /\ dpc = "loop"
    /\ di <= Len(to_delete)
    /\ to_delete[di] # NoUuid
    /\ \E primary_ok \in BOOLEAN :
        /\ calls' = Append(calls, [op |-> "delete_by_id", uuid |-> to_delete[di],
                                   at |-> di, ok |-> primary_ok])
        /\ IF primary_ok
           THEN /\ store' = store \ {to_delete[di]}
                /\ IF SafeDeleteReturns(TRUE, FALSE)
                   THEN deleted' = Append(deleted, to_delete[di]) /\ failed' = failed
                   ELSE failed' = Append(failed, to_delete[di]) /\ deleted' = deleted
                /\ di' = di + 1
                /\ dpc' = "loop"
           ELSE /\ dpc' = "secondary"
                /\ UNCHANGED <<store, deleted, failed, di>>
    /\ UNCHANGED <<store0, prompt, similarity_threshold, search_limit,
                   prompt_text, q_emb, results, to_delete, debug, ret>>
    /\ UNCHANGED <<cvars, rvars, svars, mvars, ivars>>

\* lines 368-374, 504-507: col.data.delete(uuid=uuid) after the first raised
DelSecondary ==
    /\ dpc = "secondary"
    /\ \E secondary_ok \in BOOLEAN :
        /\ calls' = Append(calls, [op |-> "delete", uuid |-> to_delete[di],
                                   at |-> di, ok |-> secondary_ok])
        /\ store' = IF secondary_ok THEN store \ {to_delete[di]} ELSE store
        /\ IF SafeDeleteReturns(FALSE, secondary_ok)
           THEN deleted' = Append(deleted, to_delete[di]) /\ failed' = failed
           ELSE failed' = Append(failed, to_delete[di]) /\ deleted' = deleted
    /\ di' = di + 1
    /\ dpc' = "loop"
    /\ UNCHANGED <<store0, prompt, similarity_threshold, search_limit,
                   prompt_text, q_emb, results, to_delete, debug, ret>>
    /\ UNCHANGED <<cvars, rvars, svars, mvars, ivars>>

\* lines 509-515
DelReturn ==
    /\ dpc = "loop"
    /\ di > Len(to_delete)
    /\ dpc' = "returned"
    /\ ret' = "report"
    /\ UNCHANGED <<store, store0, prompt, similarity_threshold, search_limit,
                   prompt_text, q_emb, results, to_delete, debug, deleted,
                   failed, di, calls>>
    /\ UNCHANGED <<cvars, rvars, svars, mvars, ivars>>

\* the prompts, thresholds and limits of the modelled calls
Prompts ==
    { StrPrompt(<<"r", "a", "g">>), StrPrompt(<<>>), StrPrompt(<<" ", "\n">>),
      OtherPrompt,
      ObjPrompt(TRUE, <<"r", "a", "g">>), ObjPrompt(TRUE, <<" ">>),
      ObjPrompt(FALSE, <<>>) }

Thresholds == {Rat(0, 1), Rat(6, 10), Rat(9, 10)}

DeleteCall ==
    /\ store \in SUBSET UUIDs
    /\ store0 = store
    /\ prompt \in Prompts
    /\ similarity_threshold \in Thresholds
    /\ search_limit = MaxSearchLimit
    /\ prompt_text = [str |-> FALSE, s |-> <<>>]
    /\ q_emb = "empty"
    /\ results = <<>> /\ to_delete = <<>> /\ debug = <<>>
    /\ deleted = <<>> /\ failed = <<>>
    /\ di = 0
    /\ calls = <<>>
    /\ ret = "none"
    /\ dpc = "call"

DeleteOff ==
    /\ store = {} /\ store0 = {}
    /\ prompt = OtherPrompt
    /\ similarity_threshold = Rat(1, 2)
    /\ search_limit = 1
    /\ prompt_text = [str |-> FALSE, s |-> <<>>]
    /\ q_emb = "empty"
    /\ results = <<>> /\ to_delete = <<>> /\ debug = <<>>
    /\ deleted = <<>> /\ failed = <<>>
    /\ di = 0
    /\ calls = <<>>
    /\ ret = "none"
    /\ dpc = "off"

----------------------------------------------------------------------------
(* The two distance-to-similarity mappings, applied to a pair of distances *)

\* the distances 0, 1/2, 1, 3/2, ...
SimDistances == {Rat(k, 2) : k \in 0..MaxHalves}

\* main.py:124-133: the vector_score merge_and_rank gives a result of
\* query_embeddings with this distance
RankSimilarity(d) ==
    AddVec(<<>>, [chunk |-> "t1", doc_id |-> "d1",
                  distance |-> [k |-> "num", v |-> d],
                  score |-> NoneV])[1].vector_score

\* db.py:453-464: the vec_sim delete_similar_to_prompt gives a result object
\* whose metadata.distance is this distance
DeleteSimilarity(d) == VecSim([k |-> "num", v |-> d])

\* main.py:124-126 on both distances
SimRank ==
    /\ spc = "call"
    /\ rank_sim = <<>>
    /\ rank_sim' = <<RankSimilarity(d1), RankSimilarity(d2)>>
    /\ UNCHANGED <<d1, d2, del_sim, spc>>
    /\ UNCHANGED <<cvars, rvars, dvars, mvars, ivars>>

\* db.py:453-464 on both distances
SimDelete ==
    /\ spc = "call"
    /\ del_sim = <<>>
    /\ del_sim' = <<DeleteSimilarity(d1), DeleteSimilarity(d2)>>
    /\ UNCHANGED <<d1, d2, rank_sim, spc>>
    /\ UNCHANGED <<cvars, rvars, dvars, mvars, ivars>>

SimCall ==
    /\ d1 \in SimDistances
    /\ d2 \in SimDistances
    /\ rank_sim = <<>>
    /\ del_sim = <<>>
    /\ spc = "call"

SimOff ==
    /\ d1 = Zero /\ d2 = Zero /\ rank_sim = <<>> /\ del_sim = <<>>
    /\ spc = "off"

----------------------------------------------------------------------------
(* The collection, fetch_all_objects, clean_messed_up_data and concurrent   *)
(* maintenance invocations: db.py                                           *)

\* uuids are numbered in the store's fixed id order; 0 stands for None
RecIds == 1..MaxRecords

NoCursor == 0

\* db.py:26
FETCH_BATCH_SIZE == 2000

\* the texts of the records the collection may hold, by uuid: an empty text,
\* a text about the prompt, an unrelated text, a whitespace-only text, ...
CorpusTexts ==
    << <<>>, <<"r", "a", "g">>, <<"s", "k", "y">>, <<" ">> >>

TextOf(u) == CorpusTexts[((u - 1) % Len(CorpusTexts)) + 1]

\* the collections over a set of uuids
Collection(S) == [u \in S |-> TextOf(u)]

\* the store after delete(uuid): an absent uuid changes nothing
Remove(c, u) == [x \in DOMAIN c \ {u} |-> c[x]]

\* the store after insert(text) under the uuid u
Insert(c, u, t) == [x \in DOMAIN c \cup {u} |-> IF x = u THEN t ELSE c[x]]

\* the uuids of S in the store's id order
RECURSIVE SortedIds(_)
SortedIds(S) ==
    IF S = {} THEN <<>>
    ELSE LET m == CHOOSE x \in S : \A y \in S : x <= y
         IN  <<m>> \o SortedIds(S \ {m})

\* the objects fetch_objects(limit, after=cursor) can answer with: the records
\* following the cursor in id order
Following(c, cursor) ==
    LET ids == SortedIds({u \in DOMAIN c : u > cursor})
    IN  [k \in 1..Len(ids) |-> [uuid |-> ids[k], chunk |-> c[ids[k]]]]

\* the page sizes the store may answer with: at least one record while records
\* follow the cursor, at most `limit`
PageSizes(rest, limit) ==
    IF rest = <<>> THEN {0} ELSE 1..Min(limit, Len(rest))

\* db.py:153-155: the cursor of the next request
NextCursorFirst(objs) == objs[1].uuid

NextCursor(objs) == objs[Len(objs)].uuid

\* the invocations that may run at once
Procs == {1, 2}

\* an invocation that is not running
Idle ==
    [op |-> "none", pc |-> "off", batch_size |-> 1, cursor |-> NoCursor,
     all_objs |-> <<>>, requests |-> <<>>, i |-> 0, uid |-> NoCursor,
     cleaned |-> 0, threshold |-> Zero, vec_resp |-> <<>>, results |-> <<>>,
     to_delete |-> <<>>, deleted |-> <<>>, failed |-> <<>>, ret |-> "none"]

\* the call fetch_all_objects(batch_size)
FetchCall(n) == [Idle EXCEPT !.op = "fetch", !.pc = "fetch", !.batch_size = n]

\* the call clean_messed_up_data(): line 315 fetches with _FETCH_BATCH_SIZE
CleanCall ==
    [Idle EXCEPT !.op = "clean", !.pc = "fetch", !.batch_size = FETCH_BATCH_SIZE]

\* the call delete_similar_to_prompt("rag", threshold)
SimilarCall(t) ==
    [Idle EXCEPT !.op = "similar", !.pc = "near_vector", !.threshold = t]

\* db.py:143-160: one turn of `while True`: a page is requested; an empty
\* page ends the scan, and fetch_all_objects returns to its caller
FetchPage(p) ==
    /\ proc[p].pc = "fetch"
    /\ LET r == proc[p]
           rest == Following(coll, r.cursor)
       IN  \E n \in PageSizes(rest, r.batch_size) :
            LET objs == SubSeq(rest, 1, n)
                asked == Append(r.requests, [after |-> r.cursor, got |-> n])
            IN  IF objs = <<>>
                THEN proc' = [proc EXCEPT ![p] =
                        [r EXCEPT !.requests = asked,
                                  !.pc = IF r.op = "clean" THEN "clean"
                                         ELSE "returned",
                                  !.i = 1, !.cleaned = 0,
                                  !.ret = IF r.op = "clean" THEN "none"
                                          ELSE "all_objs"]]
                ELSE proc' = [proc EXCEPT ![p] =
                        [r EXCEPT !.requests = asked,
                                  !.all_objs = r.all_objs \o objs,
                                  !.cursor = NextCursor(objs)]]
    /\ UNCHANGED <<coll, coll0, next_uuid, faults>>
    /\ UNCHANGED <<cvars, rvars, dvars, svars, ivars>>

\* db.py:321: text_value is None or str(text_value).strip() == ""
IsBlank(text_value) == Strip(text_value) = <<>>

\* db.py:318-324: one turn of `for obj in all_objects` up to the call of
\* _safe_delete
CleanIter(p) ==
    /\ proc[p].pc = "clean"
    /\ proc[p].i <= Len(proc[p].all_objs)
    /\ LET r == proc[p]
           obj == r.all_objs[r.i]
           text_value == obj.chunk
       IN  IF IsBlank(text_value)
           THEN proc' = [proc EXCEPT ![p] =
                    [r EXCEPT !.uid = obj.uuid, !.pc = "delete_by_id"]]
           ELSE proc' = [proc EXCEPT ![p] = [r EXCEPT !.i = r.i + 1]]
    /\ UNCHANGED <<coll, coll0, next_uuid, faults>>
    /\ UNCHANGED <<cvars, rvars, dvars, svars, ivars>>

\* db.py:327
CleanReturn(p) ==
    /\ proc[p].pc = "clean"
    /\ proc[p].i > Len(proc[p].all_objs)
    /\ proc' = [proc EXCEPT ![p] = [proc[p] EXCEPT !.pc = "returned",
                                                   !.ret = "counts"]]
    /\ UNCHANGED <<coll, coll0, next_uuid, faults>>
    /\ UNCHANGED <<cvars, rvars, dvars, svars, ivars>>

\* how a delete call on the store may end: a present record is removed unless
\* the store fails; an absent one is a no-op or is reported as not found
DeleteOutcomes(c, u, faulty) ==
    IF u \in DOMAIN c /\ ~faulty THEN {TRUE} ELSE BOOLEAN

\* db.py:368-374: the inner `except` catches whatever the secondary form raises
SafeDeleteCompletesUncaught(primary_ok, secondary_ok) ==
    primary_ok \/ secondary_ok

SafeDeleteCompletes(primary_ok, secondary_ok) == TRUE

\* the caller of _safe_delete goes on with what it returned: db.py:325-326
\* (the value is dropped, cleaned += 1) and db.py:504-507
Resume(r, returned) ==
    IF r.op = "clean"
    THEN [r EXCEPT !.cleaned = r.cleaned + 1, !.i = r.i + 1, !.pc = "clean"]
    ELSE IF returned
         THEN [r EXCEPT !.deleted = Append(r.deleted, r.uid), !.i = r.i + 1,
                        !.pc = "loop"]
         ELSE [r EXCEPT !.failed = Append(r.failed, r.uid), !.i = r.i + 1,
                        !.pc = "loop"]

\* db.py:362-367: col.data.delete_by_id(uuid)
SafeDeletePrimary(p) ==
    /\ proc[p].pc = "delete_by_id"
    /\ LET r == proc[p]
       IN  \E primary_ok \in DeleteOutcomes(coll, r.uid, faults) :
            IF primary_ok
            THEN /\ coll' = Remove(coll, r.uid)
                 /\ proc' = [proc EXCEPT ![p] =
                        Resume(r, SafeDeleteReturns(TRUE, FALSE))]
            ELSE /\ coll' = coll
                 /\ proc' = [proc EXCEPT ![p] = [r EXCEPT !.pc = "delete"]]
    /\ UNCHANGED <<coll0, next_uuid, faults>>
    /\ UNCHANGED <<cvars, rvars, dvars, svars, ivars>>

\* db.py:368-374: col.data.delete(uuid=uuid)
SafeDeleteSecondary(p) ==
    /\ proc[p].pc = "delete"
    /\ LET r == proc[p]
       IN  \E secondary_ok \in DeleteOutcomes(coll, r.uid, faults) :
            /\ coll' = IF secondary_ok THEN Remove(coll, r.uid) ELSE coll
            /\ IF SafeDeleteCompletes(FALSE, secondary_ok)
               THEN proc' = [proc EXCEPT ![p] =
                        Resume(r, SafeDeleteReturns(FALSE, secondary_ok))]
               ELSE proc' = [proc EXCEPT ![p] = [r EXCEPT !.pc = "raised"]]
    /\ UNCHANGED <<coll0, next_uuid, faults>>
    /\ UNCHANGED <<cvars, rvars, dvars, svars, ivars>>

\* what the store answers to near_vector for the prompt "rag": every record
\* (search_limit exceeds the collection), a record about the prompt at
\* distance 0, any other at distance 3
NearVector(c) ==
    LET ids == SortedIds(DOMAIN c)
    IN  [k \in 1..Len(ids) |->
            [uuid |-> ids[k], chunk |-> c[ids[k]],
             distance |-> IF Contains(<<"r", "a", "g">>, Lower(c[ids[k]]))
                          THEN Num(0, 1) ELSE Num(3, 1),
             score |-> NoneV]]

\* what the store answers to bm25 for the prompt "rag": the records holding
\* the word, with a score
KeywordMatches(c) ==
    LET ids == SortedIds({u \in DOMAIN c :
                            Contains(<<"r", "a", "g">>, Lower(c[u]))})
    IN  [k \in 1..Len(ids) |->
            [uuid |-> ids[k], chunk |-> c[ids[k]], distance |-> NoneV,
             score |-> Num(20, 1)]]

\* db.py:391-405: the prompt is a non-empty string, it is embedded, and
\* near_vector answers
SimilarVec(p) ==
    /\ proc[p].pc = "near_vector"
    /\ proc' = [proc EXCEPT ![p] = [proc[p] EXCEPT !.vec_resp = NearVector(coll),
                                                   !.pc = "bm25"]]
    /\ UNCHANGED <<coll, coll0, next_uuid, faults>>
    /\ UNCHANGED <<cvars, rvars, dvars, svars, ivars>>

\* db.py:406-496: bm25 answers; the concatenated results are scored and the
\* candidates reaching the threshold queued
SimilarBm25(p) ==
    /\ proc[p].pc = "bm25"
    /\ \E r \in {proc[p]} :
        \E res \in {r.vec_resp \o KeywordMatches(coll)} :
            IF res = <<>>
            THEN proc' = [proc EXCEPT ![p] =
                    [r EXCEPT !.pc = "returned", !.ret = "no results found"]]
            ELSE proc' = [proc EXCEPT ![p] =
                    [r EXCEPT !.results = res,
                              !.to_delete = ToDelete(res, r.threshold),
                              !.i = 1, !.pc = "loop"]]
    /\ UNCHANGED <<coll, coll0, next_uuid, faults>>
    /\ UNCHANGED <<cvars, rvars, dvars, svars, ivars>>

\* db.py:501-504: one turn of `for uid in to_delete` up to the call of
\* _safe_delete (every queued uid is a record's uuid here)
SimilarIter(p) ==
    /\ proc[p].pc = "loop"
    /\ proc[p].i <= Len(proc[p].to_delete)
    /\ proc' = [proc EXCEPT ![p] =
            [proc[p] EXCEPT !.uid = proc[p].to_delete[proc[p].i],
                            !.pc = "delete_by_id"]]
    /\ UNCHANGED <<coll, coll0, next_uuid, faults>>
    /\ UNCHANGED <<cvars, rvars, dvars, svars, ivars>>

\* db.py:509-515
SimilarReturn(p) ==
    /\ proc[p].pc = "loop"
    /\ proc[p].i > Len(proc[p].to_delete)
    /\ proc' = [proc EXCEPT ![p] = [proc[p] EXCEPT !.pc = "returned",
                                                   !.ret = "report"]]
    /\ UNCHANGED <<coll, coll0, next_uuid, faults>>
    /\ UNCHANGED <<cvars, rvars, dvars, svars, ivars>>

\* the thresholds of the modelled delete_similar_to_prompt invocations
MaintThresholds == {Rat(0, 1), Rat(6, 10)}

\* a scan of a collection alone
FetchAlone ==
    /\ \E S \in SUBSET RecIds : coll = Collection(S)
    /\ coll0 = coll
    /\ next_uuid = MaxRecords + 1
    /\ faults = FALSE
    /\ \E n \in 1..MaxBatch : proc = [p \in Procs |-> IF p = 1 THEN FetchCall(n) ELSE Idle]

\* one clean_messed_up_data on a store whose deletes may fail
CleanAlone ==
    /\ \E S \in SUBSET RecIds : coll = Collection(S)
    /\ coll0 = coll
    /\ next_uuid = MaxRecords + 1
    /\ faults = TRUE
    /\ proc = [p \in Procs |-> IF p = 1 THEN CleanCall ELSE Idle]

\* two maintenance invocations at once on a store that is up
MaintCalls == {CleanCall} \cup {SimilarCall(t) : t \in MaintThresholds}

TwoAtOnce ==
    /\ \E S \in SUBSET RecIds : coll = Collection(S)
    /\ coll0 = coll
    /\ next_uuid = MaxRecords + 1
    /\ faults = FALSE
    /\ proc \in [Procs -> MaintCalls]

MaintOff ==
    /\ coll = Collection({})
    /\ coll0 = coll
    /\ next_uuid = 1
    /\ faults = FALSE
    /\ proc = [p \in Procs |-> Idle]

----------------------------------------------------------------------------
(* ingest and chat_analyze: main.py; add_chunk: db.py                       *)
(* Both handlers call chunk_text(..., 1200, 200).  The modelled texts are   *)
(* a few characters long, so the window is scaled to WindowSize characters  *)
(* with WindowOverlap of overlap.                                           *)

IngestChars == {"a", "\n"}

\* the uploaded file's extracted text, or the form field `text`
IngestTexts == BoundedSeq(IngestChars, MaxLen)

\* the `memory` the classifier may answer with
ChatMemories ==
    { <<>>, <<"a", " ", "a">>, <<" ", "a", " ", "a", " ", "a", " ", "a">> }

\* len(memory.split())
RECURSIVE WordCount(_)
WordCount(s) ==
    IF s = <<>> THEN 0
    ELSE IF Head(s) \in Whitespace THEN WordCount(Tail(s))
    ELSE IF Len(s) >= 2 /\ s[2] \notin Whitespace THEN WordCount(Tail(s))
    ELSE 1 + WordCount(Tail(s))

\* main.py:301-308: memory is kept when not empty, of 4 words or more and of
\* 800 characters at most (no modelled memory holds a greeting)
MemoryKept(memory) ==
    /\ memory # <<>>
    /\ ~(WordCount(memory) < 4)
    /\ ~(Len(memory) > 800)

\* no handler is running
Quiet == ipc = "idle" /\ proc[1].pc = "off"

\* main.py:98, 311: chunk_text(content, 1200, 200) is called
CallChunkText(content) ==
    /\ raw' = content
    /\ chunk_size_chars' = WindowSize
    /\ overlap' = WindowOverlap
    /\ cpc' = "call"
    /\ UNCHANGED <<text, start, chunks>>

\* main.py:87-98 with a file: the extracted text is chunked as it is, unless
\* it strips to nothing
IngestFile ==
    /\ Quiet
    /\ \E content \in IngestTexts :
        IF Strip(content) = <<>>
        THEN UNCHANGED <<cvars, iop, ipc>>
        ELSE /\ CallChunkText(content)
             /\ iop' = "ingest"
             /\ ipc' = "busy"
    /\ added' = 0
    /\ UNCHANGED <<rvars, dvars, svars, mvars>>

\* main.py:93-98 with the form field: a non-empty text is stripped and chunked
IngestText ==
    /\ Quiet
    /\ \E t \in IngestTexts :
        IF t = <<>>
        THEN UNCHANGED <<cvars, iop, ipc>>
        ELSE /\ CallChunkText(Strip(t))
             /\ iop' = "ingest"
             /\ ipc' = "busy"
    /\ added' = 0
    /\ UNCHANGED <<rvars, dvars, svars, mvars>>

\* main.py:298-311: the classified memory is stripped, tested and chunked
ChatStore ==
    /\ Quiet
    /\ \E m \in ChatMemories :
        LET memory == Strip(m)
        IN  IF ~MemoryKept(memory)
            THEN UNCHANGED <<cvars, iop, ipc>>
            ELSE /\ CallChunkText(memory)
                 /\ iop' = "chat"
                 /\ ipc' = "busy"
    /\ added' = 0
    /\ UNCHANGED <<rvars, dvars, svars, mvars>>

\* the handler is over: its locals are gone
HandlerOver ==
    /\ raw' = <<>> /\ text' = <<>> /\ chunk_size_chars' = 1 /\ overlap' = 0
    /\ start' = 0 /\ chunks' = <<>> /\ cpc' = "off"
    /\ iop' = "none" /\ ipc' = "idle" /\ added' = 0

\* main.py:102-105, 314-321, db.py:166-181: the next chunk is embedded and
\* inserted; when insert and create both raise, the handler ends there
AddChunk ==
    /\ ipc = "busy"
    /\ cpc = "done"
    /\ added < Len(chunks)
    /\ \E inserted \in {b \in BOOLEAN : b => next_uuid <= MaxInserts} :
        IF inserted
        THEN /\ coll' = Insert(coll, next_uuid, chunks[added + 1])
             /\ next_uuid' = next_uuid + 1
             /\ added' = added + 1
             /\ UNCHANGED <<cvars, iop, ipc>>
        ELSE /\ HandlerOver
             /\ UNCHANGED <<coll, next_uuid>>
    /\ UNCHANGED <<coll0, faults, proc>>
    /\ UNCHANGED <<rvars, dvars, svars>>

\* main.py:107, 323-329: every chunk is stored, the handler returns
IngestReturn ==
    /\ ipc = "busy"
    /\ cpc = "done"
    /\ added = Len(chunks)
    /\ HandlerOver
    /\ UNCHANGED <<rvars, dvars, svars, mvars>>

\* main.py:334-337, 357: clean_messed_up_data or delete_similar_to_prompt is
\* called
MaintStart ==
    /\ Quiet
    /\ \E call \in MaintCalls : proc' = [proc EXCEPT ![1] = call]
    /\ UNCHANGED <<coll, coll0, next_uuid, faults>>
    /\ UNCHANGED <<cvars, rvars, dvars, svars, ivars>>

\* the maintenance call has returned to its handler
MaintOver ==
    /\ proc[1].pc = "returned"
    /\ proc' = [proc EXCEPT ![1] = Idle]
    /\ UNCHANGED <<coll, coll0, next_uuid, faults>>
    /\ UNCHANGED <<cvars, rvars, dvars, svars, ivars>>

\* the server is up with an empty collection
ServerUp ==
    /\ coll = Collection({})
    /\ coll0 = coll
    /\ next_uuid = 1
    /\ faults = TRUE
    /\ proc = [p \in Procs |-> Idle]
    /\ iop = "none" /\ ipc = "idle" /\ added = 0

IngestOff == iop = "none" /\ ipc = "off" /\ added = 0

----------------------------------------------------------------------------
(* Specifications: one per operation, the other operations not running *)

InitChunk == ChunkCall /\ RankOff /\ DeleteOff /\ SimOff /\ MaintOff /\ IngestOff

NextChunk == ChunkEnter \/ ChunkIter \/ ChunkReturn

SpecChunk == InitChunk /\ [][NextChunk]_vars

InitRank == RankCall /\ ChunkOff /\ DeleteOff /\ SimOff /\ MaintOff /\ IngestOff

NextRank == Rank

SpecRank == InitRank /\ [][NextRank]_vars

InitDelete == DeleteCall /\ ChunkOff /\ RankOff /\ SimOff /\ MaintOff /\ IngestOff

NextDelete ==
    \/ DelValidate
    \/ DelEmbed
    \/ DelSearch
    \/ DelSearchFails
    \/ DelScore
    \/ DelSkip
    \/ DelPrimary
    \/ DelSecondary
    \/ DelReturn

SpecDelete == InitDelete /\ [][NextDelete]_vars

InitSim ==
    SimCall /\ ChunkOff /\ RankOff /\ DeleteOff /\ MaintOff /\ IngestOff

NextSim == SimRank \/ SimDelete

SpecSim == InitSim /\ [][NextSim]_vars

InitFetch ==
    FetchAlone /\ ChunkOff /\ RankOff /\ DeleteOff /\ SimOff /\ IngestOff

NextFetch == \E p \in Procs : FetchPage(p)

SpecFetch == InitFetch /\ [][NextFetch]_vars

InitClean ==
    CleanAlone /\ ChunkOff /\ RankOff /\ DeleteOff /\ SimOff /\ IngestOff

NextClean ==
    \E p \in Procs :
        \/ FetchPage(p)
        \/ CleanIter(p)
        \/ CleanReturn(p)
        \/ SafeDeletePrimary(p)
        \/ SafeDeleteSecondary(p)

SpecClean == InitClean /\ [][NextClean]_vars

InitConc ==
    TwoAtOnce /\ ChunkOff /\ RankOff /\ DeleteOff /\ SimOff /\ IngestOff

NextConc ==
    \E p \in Procs :
        \/ FetchPage(p)
        \/ CleanIter(p)
        \/ CleanReturn(p)
        \/ SafeDeletePrimary(p)
        \/ SafeDeleteSecondary(p)
        \/ SimilarVec(p)
        \/ SimilarBm25(p)
        \/ SimilarIter(p)
        \/ SimilarReturn(p)

SpecConc == InitConc /\ [][NextConc]_vars

InitServer == ServerUp /\ ChunkOff /\ RankOff /\ DeleteOff /\ SimOff

NextServer ==
    \/ IngestFile
    \/ IngestText
    \/ ChatStore
    \/ ChunkEnter
    \/ ChunkIter
    \/ ChunkReturn
    \/ AddChunk
    \/ IngestReturn
    \/ MaintStart
    \/ MaintOver
    \/ FetchPage(1)
    \/ CleanIter(1)
    \/ CleanReturn(1)
    \/ SafeDeletePrimary(1)
    \/ SafeDeleteSecondary(1)
    \/ SimilarVec(1)
    \/ SimilarBm25(1)
    \/ SimilarIter(1)
    \/ SimilarReturn(1)

SpecServer == InitServer /\ [][NextServer]_vars

----------------------------------------------------------------------------
(* Claims about chunk_text *)

\* C1: chunk_text terminates for every window_size >= 1 and overlap >= 0,
\* overlap >= window_size included.  The loop `while start < L` is
\* deterministic in `start`, so it ends iff every iteration moves `start`
\* strictly forward: stated as that progress condition on each iteration.
C1_Terminates ==
    [][(cpc = "loop" /\ cpc' = "loop") => start' > start]_vars

\* C2: an empty normalized text gives the empty list; a non-empty normalized
\* text shorter than the window (0 <= overlap < window) gives exactly one
\* chunk, the whole normalized text.
C2_ShortInput ==
    cpc = "done" =>
        /\ (text = <<>> => chunks = <<>>)
        /\ (/\ text # <<>>
            /\ Len(text) < chunk_size_chars
            /\ overlap < chunk_size_chars) => chunks = <<text>>

\* the unique span of each chunk: a chunk without the part it shares with its
\* successor, which starts `step` characters later; the last chunk whole
UniqueSpans(chs, step) ==
    [i \in 1..Len(chs) |->
        IF i < Len(chs) THEN Slice(chs[i], 0, step) ELSE chs[i]]

\* the maximal runs of non-whitespace characters of s, in order
RECURSIVE Words(_, _)
Words(s, cur) ==
    IF s = <<>> THEN (IF cur = <<>> THEN <<>> ELSE <<cur>>)
    ELSE IF Head(s) \in Whitespace
         THEN (IF cur = <<>> THEN <<>> ELSE <<cur>>) \o Words(Tail(s), <<>>)
         ELSE Words(Tail(s), Append(cur, Head(s)))

\* t is the whitespace-normalized form of s: same words, separated by exactly
\* one space, nothing before the first or after the last
IsNormalizedFormOf(t, s) ==
    /\ Words(t, <<>>) = Words(s, <<>>)
    /\ \A i \in 1..Len(t) : t[i] \in Whitespace =>
            /\ t[i] = " "
            /\ 1 < i /\ i < Len(t)
            /\ t[i + 1] \notin Whitespace

\* C3: for 0 <= overlap < window_size, the unique spans of the returned
\* chunks, concatenated in order, are exactly the whitespace-normalized text.
C3_Coverage ==
    (cpc = "done" /\ overlap < chunk_size_chars) =>
        /\ IsNormalizedFormOf(text, raw)
        /\ Concat(UniqueSpans(chunks, chunk_size_chars - overlap)) = text

C3_Witness ==
    /\ cpc = "done"
    /\ 1 <= overlap /\ overlap < chunk_size_chars
    /\ Len(chunks) >= 3
    /\ Len(chunks[Len(chunks)]) < chunk_size_chars
    /\ raw # text

----------------------------------------------------------------------------
(* Claims about merge_and_rank *)

\* the texts of the three input lists in the order the loops meet them
InputTexts == [i \in 1..Len(vec \o bm25 \o hybrid) |-> (vec \o bm25 \o hybrid)[i].chunk]

DistinctTexts == {InputTexts[i] : i \in 1..Len(InputTexts)}

\* where a text is first met, i.e. when its key enters the mapping
FirstSeen(t) ==
    CHOOSE i \in 1..Len(InputTexts) :
        InputTexts[i] = t /\ \A j \in 1..(i - 1) : InputTexts[j] # t

\* sum of the (coerced) raw scores of the entries of rs whose text is t
RECURSIVE SumScores(_, _)
SumScores(rs, t) ==
    IF rs = <<>> THEN Zero
    ELSE RAdd(IF Head(rs).chunk = t THEN safe(Head(rs).score) ELSE Zero,
              SumScores(Tail(rs), t))

\* 1/(1+d) of the text's entry in the vector list (of the last one when the
\* list repeats the text), no contribution when the list does not hold it
VectorSimilarity(t) ==
    LET at == {i \in 1..Len(vec) : vec[i].chunk = t}
    IN  IF at = {} THEN Zero
        ELSE LET last == CHOOSE i \in at : \A j \in at : j <= i
             IN  RDiv(One, RAdd(One, safe(vec[last].distance)))

FusedScore(t) ==
    RAdd(RAdd(RMul(Rat(1, 2), VectorSimilarity(t)),
              RMul(Rat(3, 10), SumScores(bm25, t))),
         RMul(Rat(2, 10), SumScores(hybrid, t)))

\* C4: at most one candidate per distinct chunk text, each with score
\* 0.5 * vector_similarity + 0.3 * keyword_score + 0.2 * hybrid_score, the
\* keyword and hybrid scores summed over all entries with that text, also when
\* texts repeat within and across the lists.
C4_FusedScore ==
    rpc = "returned" =>
        /\ \A i, j \in 1..Len(ranked) :
                ranked[i].chunk = ranked[j].chunk => i = j
        /\ \A i \in 1..Len(ranked) :
                /\ ranked[i].chunk \in DistinctTexts
                /\ ranked[i].score = FusedScore(ranked[i].chunk)

C4_Witness ==
    /\ rpc = "returned"
    /\ \E t \in Texts :
        /\ Cardinality({i \in 1..Len(bm25) :
                bm25[i].chunk = t /\ bm25[i].score.k = "num"}) >= 2
        /\ \E i \in 1..Len(vec) : vec[i].chunk = t
        /\ \E i \in 1..Len(hybrid) : hybrid[i].chunk = t
        /\ \E i \in 1..Len(ranked) : ranked[i].chunk = t

\* every signal of text t is missing or None in every list
AllSignalsAbsent(t) ==
    /\ \A i \in 1..Len(vec) : vec[i].chunk = t => vec[i].distance.k = "none"
    /\ \A i \in 1..Len(bm25) : bm25[i].chunk = t => bm25[i].score.k = "none"
    /\ \A i \in 1..Len(hybrid) : hybrid[i].chunk = t => hybrid[i].score.k = "none"

\* C5: every returned candidate has final score >= 0, and a candidate all of
\* whose raw signals are absent/null has final score exactly 0.
C5_FusionBounds ==
    rpc = "returned" =>
        \A i \in 1..Len(ranked) :
            /\ RLe(Zero, ranked[i].score)
            /\ AllSignalsAbsent(ranked[i].chunk) => ranked[i].score = Zero

\* C6: merge_and_rank never raises, whatever the signal fields hold (missing,
\* null, non-numeric, any number), and returns the empty list when all three
\* input lists are empty.
C6_NeverRaises ==
    /\ rpc # "raised"
    /\ (rpc = "returned" /\ vec = <<>> /\ bm25 = <<>> /\ hybrid = <<>>)
            => ranked = <<>>

\* C7: the returned list is sorted by final score, non-increasing; candidates
\* of equal score keep the order in which their text entered the mapping; the
\* list holds the min(top_k, number of distinct texts) best candidates; a
\* second call on the same inputs returns the same list.
C7_RankedOrder ==
    rpc = "returned" =>
        /\ \A i, j \in 1..Len(ranked) : i < j =>
                /\ RLe(ranked[j].score, ranked[i].score)
                /\ ranked[i].score = ranked[j].score =>
                        FirstSeen(ranked[i].chunk) < FirstSeen(ranked[j].chunk)
        /\ Len(ranked) = Min(top_k, Cardinality(DistinctTexts))
        /\ \A t \in DistinctTexts :
                (\A i \in 1..Len(ranked) : ranked[i].chunk # t) =>
                    \A i \in 1..Len(ranked) :
                        /\ RLe(FusedScore(t), ranked[i].score)
                        /\ FusedScore(t) = ranked[i].score =>
                                FirstSeen(ranked[i].chunk) < FirstSeen(t)
        /\ ranked = merge_and_rank(vec, bm25, hybrid, top_k)

C7_Witness ==
    /\ rpc = "returned"
    /\ Len(ranked) = 2
    /\ ranked[1].score = ranked[2].score
    /\ ranked[1].score # Zero
    /\ \E i \in 1..Len(vec) : vec[i].chunk = ranked[1].chunk
    /\ \A i \in 1..Len(vec) : vec[i].chunk # ranked[2].chunk
    /\ ranked[1].vector_score # ranked[2].vector_score

----------------------------------------------------------------------------
(* Claims about delete_similar_to_prompt *)

NoSideEffect == calls = <<>> /\ store = store0

\* C8: a prompt that is empty, whitespace-only or not a string is rejected
\* with a validation error before any call to the embedding service or the
\* store, and the store is left unchanged.
C8_RejectsBadPrompt ==
    (dpc # "call" /\ (prompt.k # "str" \/ Strip(prompt.s) = <<>>)) =>
        (dpc = "raised" /\ ret = "ValueError" /\ NoSideEffect)

\* C8, amended: the test is made on the prompt text, which is the prompt's
\* attribute `query` when it has one and the prompt itself otherwise; a prompt
\* text that is not a string, or is empty or whitespace-only, is rejected with
\* a validation error before any call to the embedding service or the store.
C8_RejectsBadPromptText ==
    LET pt == PromptText(prompt)
    IN  /\ (dpc # "call" /\ (~pt.str \/ Strip(pt.s) = <<>>)) =>
                (dpc = "raised" /\ ret = "ValueError" /\ NoSideEffect)
        /\ dpc = "raised" => NoSideEffect

C8_Witness ==
    /\ dpc = "raised"
    /\ prompt.k = "str"
    /\ prompt.s # <<>>
    /\ store # {}

\* the composite similarity of a scored candidate, from its debug record
Composite(dbg) ==
    RMin(One,
         RAdd(RAdd(RMul(Rat(6, 10), dbg.vector_similarity),
                   RMul(Rat(3, 10), dbg.bm25_similarity)),
              dbg.keyword_boost))

\* the uuids of the candidates from position i on that reach the threshold
RECURSIVE Reaching(_)
Reaching(i) ==
    IF i > Len(results) THEN <<>>
    ELSE (IF RLe(similarity_threshold, Composite(debug[i]))
          THEN <<results[i].uuid>> ELSE <<>>) \o Reaching(i + 1)

IsDelete(c) == c.op \in {"delete_by_id", "delete"}

Scoring == dpc \in {"loop", "secondary"} \/ (dpc = "returned" /\ ret = "report")

\* C9: a scored candidate is queued for deletion iff its composite similarity
\* min(1, 0.6 * vector + 0.3 * keyword + boost) is >= similarity_threshold,
\* equality included; so a delete is issued for a record only if one of its
\* scored appearances in the concatenated results reached the threshold.
C9_ThresholdSelection ==
    /\ Scoring =>
        /\ Len(debug) = Len(results)
        /\ \A i \in 1..Len(debug) :
                debug[i].final_similarity = Composite(debug[i])
        /\ to_delete = Reaching(1)
    /\ \A j \in 1..Len(calls) : IsDelete(calls[j]) =>
            \E i \in 1..Len(results) :
                /\ results[i].uuid = calls[j].uuid
                /\ RLe(similarity_threshold, Composite(debug[i]))

C9_Witness ==
    /\ dpc = "returned" /\ ret = "report"
    /\ RLt(Zero, similarity_threshold)
    /\ \E i, j \in 1..Len(results) :
        /\ Composite(debug[i]) = similarity_threshold
        /\ \E n \in 1..Len(deleted) : deleted[n] = results[i].uuid
        /\ RLt(Composite(debug[j]), similarity_threshold)
        /\ results[j].uuid \in UUIDs
        /\ \A n \in 1..Len(calls) : calls[n].uuid # results[j].uuid

\* the delete attempts made so far, in order
DeleteCalls == SelectSeq(calls, IsDelete)

PrimaryRaised(i) ==
    \E j \in 1..Len(calls) :
        calls[j].op = "delete_by_id" /\ calls[j].at = i /\ ~calls[j].ok

SecondaryRaised(i) ==
    \E j \in 1..Len(calls) :
        calls[j].op = "delete" /\ calls[j].at = i /\ ~calls[j].ok

\* the queued uuids from position i on whose delete failed (both forms
\* raised) or, with want = FALSE, did not fail
RECURSIVE Classified(_, _)
Classified(i, want) ==
    IF i > Len(to_delete) THEN <<>>
    ELSE (IF /\ to_delete[i] # NoUuid
             /\ (PrimaryRaised(i) /\ SecondaryRaised(i)) = want
          THEN <<to_delete[i]>> ELSE <<>>) \o Classified(i + 1, want)

\* C10: per queued id the primary delete-by-id is tried first and the
\* secondary form only after the primary raised; an id is failed only if both
\* raised; a failure never aborts the batch: every queued id gets its attempt
\* and the call returns normally.
C10_DeleteFallback ==
    /\ \A j \in 1..Len(DeleteCalls) :
        /\ DeleteCalls[j].op = "delete" =>
                /\ j > 1
                /\ DeleteCalls[j - 1].op = "delete_by_id"
                /\ DeleteCalls[j - 1].at = DeleteCalls[j].at
                /\ ~DeleteCalls[j - 1].ok
        /\ DeleteCalls[j].op = "delete_by_id" =>
                \A n \in 1..(j - 1) :
                    DeleteCalls[n].at < DeleteCalls[j].at
        /\ DeleteCalls[j].uuid = to_delete[DeleteCalls[j].at]
    /\ dpc = "raised" => DeleteCalls = <<>>
    /\ dpc \in {"loop", "secondary"} => ENABLED NextDelete
    /\ (dpc = "returned" /\ ret = "report") =>
        /\ \A i \in 1..Len(to_delete) : to_delete[i] # NoUuid =>
                /\ \E j \in 1..Len(calls) :
                        calls[j].op = "delete_by_id" /\ calls[j].at = i
                /\ PrimaryRaised(i) =>
                        \E j \in 1..Len(calls) :
                            calls[j].op = "delete" /\ calls[j].at = i
        /\ failed = Classified(1, TRUE)
        /\ deleted = Classified(1, FALSE)

C10_Witness ==
    /\ dpc = "returned" /\ ret = "report"
    /\ \E i, j, n \in 1..Len(to_delete) :
        /\ i < j /\ j < n
        /\ PrimaryRaised(i) /\ SecondaryRaised(i)
        /\ PrimaryRaised(j) /\ ~SecondaryRaised(j)
        /\ ~PrimaryRaised(n) /\ to_delete[n] # NoUuid
    /\ Len(failed) = 1
    /\ Len(deleted) = 2

\* the ids a sequence holds
Ids(seq) == {seq[i] : i \in 1..Len(seq)}

\* C11: in the report every queued delete attempt is recorded in exactly one
\* of `deleted` and `failed`, so matched_count = len(deleted) + len(failed);
\* every id in `deleted` is absent from the store when the call returns; no id
\* is in both `deleted` and `failed`, so `failed` is exactly the set of records
\* to retry, also when a record was returned by both searches.
C11_ReportPartition ==
    (dpc = "returned" /\ ret = "report") =>
        /\ Len(to_delete) = Len(deleted) + Len(failed)
        /\ Ids(deleted) \cap store = {}
        /\ Ids(deleted) \cap Ids(failed) = {}
        /\ Ids(failed) = Ids(to_delete) \cap store

\* a search call of the invocation raised
SearchRaised ==
    \E j \in 1..Len(calls) : calls[j].op \in {"near_vector", "bm25"} /\ ~calls[j].ok

\* C14: when a store search raises, or the embedding is empty, during a
\* bulk-delete invocation, the failed signal contributes zero candidates and
\* the scoring still completes on the candidates of the remaining search: the
\* invocation ends with its report (or with "no results found" when the other
\* search found nothing), never by giving up on the whole operation.
C14_GracefulDegradation ==
    (dpc = "returned" /\ (SearchRaised \/ q_emb = "empty")) =>
        ret \in {"report", "no results found"}

----------------------------------------------------------------------------
(* Claims about the distance-to-similarity mappings *)

\* C12: monotonic similarity: for all distances 0 <= d1 < d2 the similarity of
\* d1 is greater than that of d2, for merge_and_rank's mapping 1/(1+d) and for
\* the bulk delete's two-regime mapping (1 - d on [0,1], 1/(1+d) otherwise),
\* pairs falling in different regimes included.
C12_MonotonicSimilarity ==
    (RLe(Zero, d1) /\ RLt(d1, d2)) =>
        /\ rank_sim # <<>> => RLt(rank_sim[2], rank_sim[1])
        /\ del_sim # <<>> => RLt(del_sim[2], del_sim[1])

----------------------------------------------------------------------------
(* Claims about fetch_all_objects *)

\* the number of records the first k requests returned
RECURSIVE Got(_, _)
Got(reqs, k) == IF k = 0 THEN 0 ELSE Got(reqs, k - 1) + reqs[k].got

\* C13: against a store whose page holds the records following the cursor in
\* id order, possibly fewer than asked for, fetch_all_objects asks for the
\* first page with an empty cursor, asks for each next page with the id of the
\* last record of the page before, stops at the first page without records,
\* and returns every stored record exactly once in the order of the pages.
C13_FetchAll ==
    LET r == proc[1]
        reqs == r.requests
    IN  r.op = "fetch" =>
            /\ reqs # <<>> => reqs[1].after = NoCursor
            /\ \A k \in 2..Len(reqs) :
                    /\ reqs[k - 1].got > 0
                    /\ reqs[k].after = r.all_objs[Got(reqs, k - 1)].uuid
            /\ Len(r.all_objs) = Got(reqs, Len(reqs))
            /\ r.pc = "returned" <=> (reqs # <<>> /\ reqs[Len(reqs)].got = 0)
            /\ r.pc = "returned" => r.all_objs = Following(coll0, NoCursor)
            /\ \A a, b \in 1..Len(r.all_objs) :
                    a < b => r.all_objs[a].uuid < r.all_objs[b].uuid

C13_Witness ==
    LET r == proc[1]
    IN  /\ r.op = "fetch"
        /\ r.pc = "returned"
        /\ Len(r.requests) = 3
        /\ r.batch_size = 3
        /\ r.requests[1].got = 1
        /\ r.requests[2].got = 2
        /\ DOMAIN coll = {1, 2, 4}

----------------------------------------------------------------------------
(* Claims about clean_messed_up_data *)

\* the uuids removed from the collection since the invocations began
Removed == DOMAIN coll0 \ DOMAIN coll

\* C16: the count `cleaned` that clean_messed_up_data returns is the number of
\* records the call removed from the store; every removed record had an empty
\* or whitespace-only text and no record with other text is deleted; also
\* when some delete attempts fail.
C16_CleanedCount ==
    LET r == proc[1]
    IN  r.op = "clean" =>
            /\ r.pc = "returned" => r.cleaned = Cardinality(Removed)
            /\ \A u \in Removed : Strip(coll0[u]) = <<>>
            /\ \A u \in DOMAIN coll0 : Strip(coll0[u]) # <<>> => u \in DOMAIN coll

----------------------------------------------------------------------------
(* Claims about concurrent maintenance invocations *)

\* what one invocation alone leaves of a collection whose deletes succeed
LeftBy(call, c) ==
    IF call.op = "clean"
    THEN [u \in {x \in DOMAIN c : Strip(c[x]) # <<>>} |-> c[u]]
    ELSE LET res == NearVector(c) \o KeywordMatches(c)
             hit == {res[k].uuid : k \in
                        {n \in 1..Len(res) :
                            RLe(call.threshold,
                                Composite(Scored(res[n])))}}
         IN  [u \in DOMAIN c \ hit |-> c[u]]

\* the uuids an invocation has called _safe_delete for and got an answer
Attempted(r) ==
    IF r.op = "clean"
    THEN {r.all_objs[k].uuid : k \in
            {n \in 1..Min(r.i - 1, Len(r.all_objs)) :
                Strip(r.all_objs[n].chunk) = <<>>}}
    ELSE Ids(r.deleted) \cup Ids(r.failed)

Finished == \A p \in Procs : proc[p].pc = "returned"

\* the invocations as they were called
Called(p) ==
    IF proc[p].op = "clean" THEN CleanCall ELSE SimilarCall(proc[p].threshold)

\* an invocation that has not returned can take its next step (the step from
\* "bm25" has no condition but the position itself)
Runs(p) ==
    \/ proc[p].pc \in {"returned", "bm25"}
    \/ ENABLED (\/ FetchPage(p) \/ CleanIter(p) \/ CleanReturn(p)
                \/ SafeDeletePrimary(p) \/ SafeDeleteSecondary(p)
                \/ SimilarVec(p) \/ SimilarIter(p) \/ SimilarReturn(p))

\* every removed record is one an invocation called _safe_delete for
OnlyTargets ==
    Removed \subseteq UNION {Attempted(proc[p]) : p \in Procs}

C15_State ==
    /\ \A p \in Procs : proc[p].pc # "raised" /\ Runs(p)
    /\ OnlyTargets
    /\ \A p \in Procs : Attempted(proc[p]) \cap DOMAIN coll = {}
    /\ Finished =>
        /\ coll = LeftBy(Called(2), LeftBy(Called(1), coll0))
        /\ coll = LeftBy(Called(1), LeftBy(Called(2), coll0))

C15_Step ==
    \A u \in DOMAIN coll \ DOMAIN coll' :
        \E p \in Procs :
            /\ proc[p].pc \in {"delete_by_id", "delete"}
            /\ proc[p].uid = u
            /\ proc'[p] # proc[p]

\* C15: under any interleaving of two maintenance invocations that attempt
\* to delete the same id the deletes are idempotent: neither invocation
\* raises and both run to completion, a record an invocation has attempted to
\* delete is absent from the store, a delete attempt removes no record but
\* its own, and the final store is the one the two invocations leave when
\* run one after the other.
C15_IdempotentDeletes == []C15_State /\ [][C15_Step]_vars

\* both invocations attempted record 1; the second found it gone, its
\* attempt reported as not found by both delete forms
C15_Witness ==
    /\ Finished
    /\ proc[1].op = "clean"
    /\ proc[2].op = "similar"
    /\ 1 \in Attempted(proc[1])
    /\ 1 \in Ids(proc[2].failed)
    /\ DOMAIN coll0 = {1, 2, 3}
    /\ DOMAIN coll = {}

----------------------------------------------------------------------------
(* Claims about the stored records *)

C17_State ==
    /\ \A u \in DOMAIN coll : coll[u] # <<>> /\ Strip(coll[u]) # <<>>
    /\ (ipc = "busy" /\ cpc \in {"loop", "done"}) =>
        /\ text = Strip(CollapseWs(raw))
        /\ \A k \in 1..Len(chunks) :
                chunks[k] # <<>> /\ Contains(chunks[k], text)

C17_Step ==
    /\ \A u \in DOMAIN coll \cap DOMAIN coll' : coll'[u] = coll[u]
    /\ \A u \in DOMAIN coll' \ DOMAIN coll :
            /\ ipc = "busy" /\ cpc = "done"
            /\ \E k \in 1..Len(chunks) : coll'[u] = chunks[k]

\* C17: in every state reached from an empty store by ingest, chat-memory
\* store, clean and delete-similar operations every stored record has a text
\* that is neither empty nor whitespace-only: a record is only ever inserted
\* with a chunk chunk_text produced, each a non-empty substring of the
\* normalized source text, and no step changes the text of a stored record.
C17_NoBlankRecords == []C17_State /\ [][C17_Step]_vars

\* after an ingest of two chunks, the second beginning with whitespace, and a
\* delete-similar that removed the first
C17_Witness ==
    /\ proc[1].op = "similar"
    /\ proc[1].pc = "returned"
    /\ proc[1].deleted = <<1>>
    /\ DOMAIN coll = {2}
    /\ coll[2] = <<" ", "a">>

====
